---------------------------- MODULE Spec2Model ----------------------------
(***************************************************************************)
(* A model of the JSON reader of src/src/json: the string codec            *)
(* (string.rs), the tokenizer (tokenizer.rs) and the recursive-descent     *)
(* parser (parser.rs).                                                     *)
(*                                                                         *)
(* Texts are sequences of values: a &[u8] is a sequence of bytes (0..255), *)
(* a String / &str seen through chars() is a sequence of Unicode scalar    *)
(* values (code points).  Three specifications share the variables:        *)
(*   Spec        Parser::parse(text): the tokenizer's iterator drained     *)
(*               one next() at a time, then the parser run on the tokens;  *)
(*   SpecParser  the parser started on a token vector (Parser::new);       *)
(*   SpecCodec   escape / unescape applied to a text.                      *)
(***************************************************************************)
EXTENDS Integers, Sequences, FiniteSets, TLC

VARIABLES
    text,      \* Tokenizer.text: the bytes of the input
    index,     \* Tokenizer.index: the cursor
    tokens,    \* the tokens collected so far / the parser's token vector
    phase,     \* "scan", "parse", "done", "panic", or "idle"
    result,    \* what Parser::parse returned
    cin,       \* string codec: the argument s
    cout,      \* string codec: the returned String
    cpc        \* string codec: which call has been made

vars == <<text, index, tokens, phase, result, cin, cout, cpc>>

\* the value of a variable the running specification does not use
Idle == <<>>

(***************************************************************************)
(* Characters (code points; for ASCII also the byte)                       *)
(***************************************************************************)
QUOTE == 34
PLUS == 43
SLASH == 47
QUESTION == 63
BACKSLASH == 92
LOWER_B == 98
LOWER_F == 102
LOWER_N == 110
LOWER_R == 114
LOWER_T == 116
LOWER_U == 117
BS == 8
HT == 9
LF == 10
FF == 12
CR == 13

RECURSIVE Flatten(_)
Flatten(ss) == IF ss = <<>> THEN <<>> ELSE Head(ss) \o Flatten(Tail(ss))

\* all sequences over S of length 0..n
SeqsUpTo(S, n) == UNION {[1..k -> S] : k \in 0..n}

(***************************************************************************)
(* string.rs                                                               *)
(***************************************************************************)
\* escape without the arm for the backslash
EscapeCharNoBackslash(c) ==
    CASE c = QUOTE -> <<BACKSLASH, QUOTE>>
      [] c = BS -> <<BACKSLASH, LOWER_B>>
      [] c = FF -> <<BACKSLASH, LOWER_F>>
      [] c = LF -> <<BACKSLASH, LOWER_N>>
      [] c = CR -> <<BACKSLASH, LOWER_R>>
      [] c = HT -> <<BACKSLASH, LOWER_T>>
      [] OTHER -> <<c>>

\* escape: the text pushed for one char
EscapeChar(c) ==
    CASE c = QUOTE -> <<BACKSLASH, QUOTE>>
      [] c = BACKSLASH -> <<BACKSLASH, BACKSLASH>>
      [] c = BS -> <<BACKSLASH, LOWER_B>>
      [] c = FF -> <<BACKSLASH, LOWER_F>>
      [] c = LF -> <<BACKSLASH, LOWER_N>>
      [] c = CR -> <<BACKSLASH, LOWER_R>>
      [] c = HT -> <<BACKSLASH, LOWER_T>>
      [] OTHER -> <<c>>

RECURSIVE escape(_)
escape(s) == IF s = <<>> THEN <<>> ELSE EscapeChar(Head(s)) \o escape(Tail(s))

\* char::to_digit(16): the digit's value, or -1
HexDigit(c) ==
    IF c \in 48..57 THEN c - 48
    ELSE IF c \in 97..102 THEN c - 87
    ELSE IF c \in 65..70 THEN c - 55
    ELSE -1

RECURSIVE HexValue(_)
HexValue(ds) ==
    IF ds = <<>> THEN 0 ELSE 16 * HexValue(SubSeq(ds, 1, Len(ds) - 1)) + HexDigit(ds[Len(ds)])

\* u32::from_str_radix(hex, 16) of a four-char text: the value, or -1 for Err.
\* A leading '+' is taken as a sign; every other char must be a hex digit.
FromStrRadix16(hex) ==
    LET digits == IF hex[1] = PLUS THEN Tail(hex) ELSE hex
    IN  IF \A i \in 1..Len(digits) : HexDigit(digits[i]) >= 0
        THEN HexValue(digits)
        ELSE -1

\* char::from_u32: the char, or -1 for None (a surrogate, or beyond 10FFFF)
CharFromU32(n) ==
    IF n \in 55296..57343 \/ n > 1114111 THEN -1 ELSE n

\* the char pushed for the four chars after \u
UnicodeEscape(hex) ==
    LET n == FromStrRadix16(hex)
    IN  IF n < 0 THEN QUESTION
        ELSE IF CharFromU32(n) < 0 THEN QUESTION
        ELSE CharFromU32(n)

\* the char pushed for a one-char escape \c
SimpleEscape(c) ==
    CASE c = QUOTE -> QUOTE
      [] c = SLASH -> SLASH
      [] c = BACKSLASH -> BACKSLASH
      [] c = LOWER_B -> BS
      [] c = LOWER_F -> FF
      [] c = LOWER_N -> LF
      [] c = LOWER_R -> CR
      [] c = LOWER_T -> HT
      [] OTHER -> c

\* chars.next() gave None inside the four-char loop of \u: the early return
TruncatedEscapeDropped(r) == r

TruncatedEscape(r) == Append(r, QUESTION)

\* unescape's loop with chars at position i and result r
RECURSIVE UnescapeFrom(_, _, _)
UnescapeFrom(s, i, r) ==
    IF i > Len(s) THEN r
    ELSE IF s[i] # BACKSLASH THEN UnescapeFrom(s, i + 1, Append(r, s[i]))
    ELSE IF i + 1 > Len(s) THEN Append(r, BACKSLASH)
    ELSE IF s[i + 1] = LOWER_U THEN
        IF i + 5 > Len(s) THEN TruncatedEscape(r)
        ELSE UnescapeFrom(s, i + 6, Append(r, UnicodeEscape(SubSeq(s, i + 2, i + 5))))
    ELSE UnescapeFrom(s, i + 2, Append(r, SimpleEscape(s[i + 1])))

unescape(s) == UnescapeFrom(s, 1, <<>>)

(***************************************************************************)
(* token.rs, json_value.rs, parser_error.rs                                *)
(***************************************************************************)
\* Token (token.rs:8-20); a record with the variant in t and the payload in v
BeginArray == [t |-> "BeginArray"]
EndArray == [t |-> "EndArray"]
BeginObject == [t |-> "BeginObject"]
EndObject == [t |-> "EndObject"]
NameSeparator == [t |-> "NameSeparator"]
ValueSeparator == [t |-> "ValueSeparator"]
TrueToken == [t |-> "True"]
FalseToken == [t |-> "False"]
NullToken == [t |-> "Null"]
NumberToken(n) == [t |-> "Number", v |-> n]
StringToken(str) == [t |-> "String", v |-> str]

\* IntOrFloatNumber (token.rs:2-5).  An Integer is its sign and its decimal
\* digits; a Float is sign, significant digits and power of ten.
Integer(neg, mag) == [k |-> "Integer", neg |-> neg, mag |-> mag, exp |-> 0]
Float(neg, mag, exp) == [k |-> "Float", neg |-> neg, mag |-> mag, exp |-> exp]

\* JSONValue (json_value.rs:6-14)
JTrue == [t |-> "True"]
JFalse == [t |-> "False"]
JNull == [t |-> "Null"]
JNumber(n) == [t |-> "Number", v |-> n]
JString(str) == [t |-> "String", v |-> str]
JArray(items) == [t |-> "Array", v |-> items]
JObject(map) == [t |-> "Object", v |-> map]

\* HashMap::new and HashMap::insert: one entry per key, the new value kept
EmptyMap == <<>>

MapInsertKeepsOld(map, key, val) == map @@ (key :> val)

MapInsert(map, key, val) == (key :> val) @@ map

\* Result<_, ParserError>; ParserErrorKind (parser_error.rs:4-7)
Ok(v) == [ok |-> TRUE, v |-> v]
Err(kind) == [ok |-> FALSE, kind |-> kind]
UnexpectedToken == "UnexpectedToken"
UnexpectedEOF == "UnexpectedEOF"

(***************************************************************************)
(* parser.rs.  The Peekable iterator over the token vector is the vector   *)
(* and the position pos of the item the next call of next() returns; every *)
(* function returns its result and the position it leaves the iterator at. *)
(***************************************************************************)
\* iter.peek() / iter.next() is Some
HasNext(toks, pos) == pos <= Len(toks)

Ret(res, pos) == [res |-> res, pos |-> pos]

\* iter.next(): the position after the call
AfterNext(toks, pos) == IF HasNext(toks, pos) THEN pos + 1 ELSE pos

\* consume_token without the filter on the token
consume_token_unfiltered(toks, pos, token) ==
    IF HasNext(toks, pos)
    THEN Ret(Ok(toks[pos]), pos + 1)
    ELSE Ret(Err(UnexpectedToken), pos)

consume_token(toks, pos, token) ==
    IF HasNext(toks, pos) /\ toks[pos] = token
    THEN Ret(Ok(toks[pos]), pos + 1)
    ELSE Ret(Err(UnexpectedToken), AfterNext(toks, pos))

RECURSIVE parse_value(_, _), parse_array(_, _), parse_object(_, _)
RECURSIVE parse_key_value_pair(_, _), array_loop(_, _, _), object_loop(_, _, _)

parse_key_value_pair(toks, pos) ==
    IF HasNext(toks, pos) /\ toks[pos].t = "String"
    THEN LET key == toks[pos].v
             sep == consume_token(toks, pos + 1, NameSeparator)
         IN  IF ~sep.res.ok THEN sep
             ELSE LET value == parse_value(toks, sep.pos)
                  IN  IF ~value.res.ok THEN value
                      ELSE Ret(Ok(<<key, value.res.v>>), value.pos)
    ELSE Ret(Err(UnexpectedToken), AfterNext(toks, pos))

\* parse_object's loop (parser.rs:66-75), entered with the map built so far
object_loop(toks, pos, contents) ==
    IF HasNext(toks, pos) /\ toks[pos] = ValueSeparator
    THEN LET next_entry == parse_key_value_pair(toks, pos + 1)
         IN  IF ~next_entry.res.ok THEN next_entry
             ELSE object_loop(toks, next_entry.pos,
                              MapInsert(contents, next_entry.res.v[1], next_entry.res.v[2]))
    ELSE Ret(Ok(contents), pos)

parse_object(toks, pos) ==
    LET open == consume_token(toks, pos, BeginObject)
    IN  IF ~open.res.ok THEN open
        ELSE LET members ==
                     IF HasNext(toks, open.pos) /\ toks[open.pos] # EndObject
                     THEN LET next_entry == parse_key_value_pair(toks, open.pos)
                          IN  IF ~next_entry.res.ok THEN next_entry
                              ELSE object_loop(toks, next_entry.pos,
                                       MapInsert(EmptyMap, next_entry.res.v[1],
                                                 next_entry.res.v[2]))
                     ELSE Ret(Ok(EmptyMap), open.pos)
             IN  IF ~members.res.ok THEN members
                 ELSE LET close == consume_token(toks, members.pos, EndObject)
                      IN  IF ~close.res.ok THEN close
                          ELSE Ret(Ok(JObject(members.res.v)), close.pos)

\* contents.push(next_val)
PushFront(contents, val) == <<val>> \o contents

Push(contents, val) == Append(contents, val)

\* parse_array's loop (parser.rs:94-103), entered with the vector built so far
array_loop(toks, pos, contents) ==
    IF HasNext(toks, pos) /\ toks[pos] = ValueSeparator
    THEN LET next_val == parse_value(toks, pos + 1)
         IN  IF ~next_val.res.ok THEN next_val
             ELSE array_loop(toks, next_val.pos, Push(contents, next_val.res.v))
    ELSE Ret(Ok(contents), pos)

parse_array(toks, pos) ==
    LET open == consume_token(toks, pos, BeginArray)
    IN  IF ~open.res.ok THEN open
        ELSE LET elements ==
                     IF HasNext(toks, open.pos) /\ toks[open.pos] # EndArray
                     THEN LET next_val == parse_value(toks, open.pos)
                          IN  IF ~next_val.res.ok THEN next_val
                              ELSE array_loop(toks, next_val.pos,
                                              Push(<<>>, next_val.res.v))
                     ELSE Ret(Ok(<<>>), open.pos)
             IN  IF ~elements.res.ok THEN elements
                 ELSE LET close == consume_token(toks, elements.pos, EndArray)
                      IN  IF ~close.res.ok THEN close
                          ELSE Ret(Ok(JArray(elements.res.v)), close.pos)

parse_value(toks, pos) ==
    IF HasNext(toks, pos)
    THEN LET next == toks[pos]
         IN  CASE next.t = "True" -> Ret(Ok(JTrue), pos + 1)
               [] next.t = "False" -> Ret(Ok(JFalse), pos + 1)
               [] next.t = "Null" -> Ret(Ok(JNull), pos + 1)
               [] next.t = "Number" -> Ret(Ok(JNumber(next.v)), pos + 1)
               [] next.t = "String" -> Ret(Ok(JString(next.v)), pos + 1)
               [] next.t = "BeginArray" -> parse_array(toks, pos)
               [] next.t = "BeginObject" -> parse_object(toks, pos)
               [] OTHER -> Ret(Err(UnexpectedToken), pos)
    ELSE Ret(Err(UnexpectedEOF), pos)

\* the closure of parse (parser.rs:26-32) applied to Ok(token)
AcceptsLeftover(toks, value) == value.res

RequireEnd(toks, value) ==
    IF ~HasNext(toks, value.pos) THEN value.res ELSE Err(UnexpectedToken)

\* parse that takes no lexemes for the value null
parse_tokens_lenient(toks) ==
    LET value == parse_value(toks, 1)
    IN  IF value.res.ok THEN RequireEnd(toks, value)
        ELSE IF toks = <<>> THEN Ok(JNull) ELSE value.res

\* Parser::parse after Tokenizer::tokenize: parse_value().and_then(...)
parse_tokens(toks) ==
    LET value == parse_value(toks, 1)
    IN  IF value.res.ok THEN RequireEnd(toks, value) ELSE value.res

(***************************************************************************)
(* tokenizer.rs.  index is the 0-based cursor into text; every scanning    *)
(* function returns what it returns in the code, the cursor it leaves, and *)
(* whether it panicked (an unwrap of Err, or an index out of range).       *)
(***************************************************************************)
SPACE == 32
MINUS == 45
DOT == 46
DIGIT_0 == 48
DIGIT_1 == 49
DIGIT_9 == 57
UPPER_E == 69
LOWER_E == 101
LEAD_2 == 192
LEAD_3 == 224
LEAD_4 == 240

\* self.text.get(i): the byte, or -1 for None
Get(txt, i) == IF i >= 0 /\ i < Len(txt) THEN txt[i + 1] ELSE -1

\* self.text[from..to]
Slice(txt, from, to) == SubSeq(txt, from + 1, to)

NoToken == [t |-> "None"]
Some(tok, i) == [some |-> TRUE, tok |-> tok, index |-> i, panic |-> FALSE]
None(i) == [some |-> FALSE, tok |-> NoToken, index |-> i, panic |-> FALSE]
Panic(i) == [some |-> FALSE, tok |-> NoToken, index |-> i, panic |-> TRUE]

\* the whitespace test without the carriage return
IsWhitespaceNoCR(b) == b = SPACE \/ b = HT \/ b = LF

IsWhitespace(b) == b = SPACE \/ b = HT \/ b = LF \/ b = CR

\* the cursor consume_whitespaces leaves
RECURSIVE consume_whitespaces(_, _)
consume_whitespaces(txt, i) ==
    IF IsWhitespace(Get(txt, i)) THEN consume_whitespaces(txt, i + 1) ELSE i

\* consume_char that leaves the cursor where it was
consume_char_stuck(txt, i) ==
    LET head_char == Get(txt, i)
    IN  IF head_char = 44 THEN Some(ValueSeparator, i)
        ELSE IF head_char \in {91, 93, 123, 125, 58} THEN Some(BeginArray, i + 1)
        ELSE None(i)

consume_char(txt, i) ==
    LET head_char == Get(txt, i)
    IN  CASE head_char = 91 -> Some(BeginArray, i + 1)
          [] head_char = 93 -> Some(EndArray, i + 1)
          [] head_char = 123 -> Some(BeginObject, i + 1)
          [] head_char = 125 -> Some(EndObject, i + 1)
          [] head_char = 58 -> Some(NameSeparator, i + 1)
          [] head_char = 44 -> Some(ValueSeparator, i + 1)
          [] OTHER -> None(i)

consume_bool_and_null(txt, i) ==
    IF i + 4 > Len(txt) THEN None(i)
    ELSE LET sub4 == Slice(txt, i, i + 4)
         IN  IF sub4 = <<116, 114, 117, 101>> THEN Some(TrueToken, i + 4)
             ELSE IF sub4 = <<110, 117, 108, 108>> THEN Some(NullToken, i + 4)
             ELSE IF i + 5 > Len(txt) THEN None(i)
             ELSE IF Slice(txt, i, i + 5) = <<102, 97, 108, 115, 101>>
                  THEN Some(FalseToken, i + 5)
                  ELSE None(i)

\* String::from_utf8: the chars of well-formed UTF-8, <<-1>> for Err
RECURSIVE FromUtf8(_)
FromUtf8(bytes) ==
    IF bytes = <<>> THEN <<>>
    ELSE LET b == bytes[1]
             width == IF b < 128 THEN 1
                      ELSE IF b >= LEAD_4 THEN 4
                      ELSE IF b >= LEAD_3 THEN 3
                      ELSE IF b >= LEAD_2 THEN 2
                      ELSE 0
             Cont(k) == bytes[k] - 128
             wellFormed == /\ width > 0
                           /\ width <= Len(bytes)
                           /\ \A k \in 2..width : bytes[k] \in 128..191
         IN  IF ~wellFormed THEN <<-1>>
             ELSE LET c == CASE width = 1 -> b
                             [] width = 2 -> (b - LEAD_2) * 64 + Cont(2)
                             [] width = 3 -> (b - LEAD_3) * 4096 + Cont(2) * 64 + Cont(3)
                             [] width = 4 -> (b - LEAD_4) * 262144 + Cont(2) * 4096
                                                + Cont(3) * 64 + Cont(4)
                      rest == FromUtf8(SubSeq(bytes, width + 1, Len(bytes)))
                  IN  IF rest # <<>> /\ rest[1] = -1 THEN <<-1>> ELSE <<c>> \o rest

\* the loop of consume_string without the arm for the backslash
RECURSIVE StringScanNoEscape(_, _)
StringScanNoEscape(txt, i) ==
    LET next_char == Get(txt, i)
    IN  IF next_char = -1 THEN -(i + 1)
        ELSE IF next_char = QUOTE THEN i
        ELSE IF next_char >= LEAD_4 THEN StringScanNoEscape(txt, i + 4)
        ELSE IF next_char >= LEAD_3 THEN StringScanNoEscape(txt, i + 3)
        ELSE IF next_char >= LEAD_2 THEN StringScanNoEscape(txt, i + 2)
        ELSE StringScanNoEscape(txt, i + 1)

\* the loop of consume_string (tokenizer.rs:95-113): the cursor at the closing
\* quote, or -(cursor + 1) when get returned None at that cursor
RECURSIVE StringScan(_, _)
StringScan(txt, i) ==
    LET next_char == Get(txt, i)
    IN  IF next_char = -1 THEN -(i + 1)
        ELSE IF next_char = QUOTE THEN i
        ELSE IF next_char = BACKSLASH THEN StringScan(txt, i + 2)
        ELSE IF next_char >= LEAD_4 THEN StringScan(txt, i + 4)
        ELSE IF next_char >= LEAD_3 THEN StringScan(txt, i + 3)
        ELSE IF next_char >= LEAD_2 THEN StringScan(txt, i + 2)
        ELSE StringScan(txt, i + 1)

consume_string(txt, i) ==
    IF Get(txt, i) # QUOTE THEN None(i)
    ELSE LET start == i + 1
             end == StringScan(txt, start)
         IN  IF end < 0 THEN None(-end - 1)
             ELSE LET value == FromUtf8(Slice(txt, start, end))
                  IN  IF value # <<>> /\ value[1] = -1 THEN Panic(end + 1)
                      ELSE Some(StringToken(unescape(value)), end + 1)

\* \d of regex::bytes (Unicode classes are on): the width of the decimal
\* digit at cursor i, 0 for none.  Besides 0-9 the model knows the
\* ARABIC-INDIC digits U+0660..0669 (bytes D9 A0 .. D9 A9).
DigitWidth(txt, i) ==
    IF Get(txt, i) \in DIGIT_0..DIGIT_9 THEN 1
    ELSE IF Get(txt, i) = 217 /\ Get(txt, i + 1) \in 160..169 THEN 2
    ELSE 0

\* \d* : the cursor after the longest run of digits
RECURSIVE DigitsEnd(_, _)
DigitsEnd(txt, i) ==
    IF DigitWidth(txt, i) = 0 THEN i ELSE DigitsEnd(txt, i + DigitWidth(txt, i))

\* -? : the cursor after an optional minus sign
SignEnd(txt, i) == IF Get(txt, i) = MINUS THEN i + 1 ELSE i

\* (0|[1-9]\d*) : the cursor after it, -1 for no match
IntPartEnd(txt, i) ==
    IF Get(txt, i) = DIGIT_0 THEN i + 1
    ELSE IF Get(txt, i) \in DIGIT_1..DIGIT_9 THEN DigitsEnd(txt, i + 1)
    ELSE -1

\* (\.\d+) : the cursor after it, -1 for no match
FracEnd(txt, i) ==
    IF Get(txt, i) = DOT /\ DigitWidth(txt, i + 1) > 0 THEN DigitsEnd(txt, i + 1) ELSE -1

\* ([eE][+\-]?\d+) : the cursor after it, -1 for no match
ExpEnd(txt, i) ==
    IF Get(txt, i) \in {LOWER_E, UPPER_E}
    THEN LET j == IF Get(txt, i + 1) \in {PLUS, MINUS} THEN i + 2 ELSE i + 1
         IN  IF DigitWidth(txt, j) > 0 THEN DigitsEnd(txt, j) ELSE -1
    ELSE -1

\* the match of -?(0|[1-9]\d*) starting at i: its length, -1 for none
IntMatchLen(txt, i) ==
    LET e == IntPartEnd(txt, SignEnd(txt, i))
    IN  IF e < 0 THEN -1 ELSE e - i

\* the match of -?(0|[1-9]\d*)((\.\d+)([eE][+\-]?\d+)?|(\.\d+)?([eE][+\-]?\d+))
\* starting at i: its length, -1 for none
FloatMatchLen(txt, i) ==
    LET p == IntPartEnd(txt, SignEnd(txt, i))
    IN  IF p < 0 THEN -1
        ELSE LET f == FracEnd(txt, p)
                 e == ExpEnd(txt, IF f < 0 THEN p ELSE f)
             IN  IF e >= 0 THEN e - i
                 ELSE IF f >= 0 THEN f - i
                 ELSE -1

\* the decimal digits of a run of ASCII digit bytes
DigitsOf(bytes) == [k \in 1..Len(bytes) |-> bytes[k] - DIGIT_0]

AllAsciiDigits(bytes) == \A k \in 1..Len(bytes) : bytes[k] \in DIGIT_0..DIGIT_9

\* a <= b for digit sequences without leading zeros
DigitsLeq(a, b) ==
    \/ Len(a) < Len(b)
    \/ /\ Len(a) = Len(b)
       /\ \/ a = b
          \/ \E k \in 1..Len(a) :
                /\ a[k] < b[k]
                /\ \A j \in 1..(k - 1) : a[j] = b[j]

\* i64::MAX = 9223372036854775807 and -(i64::MIN) = 9223372036854775808
I64MaxDigits == <<9, 2, 2, 3, 3, 7, 2, 0, 3, 6, 8, 5, 4, 7, 7, 5, 8, 0, 7>>
I64MinDigits == <<9, 2, 2, 3, 3, 7, 2, 0, 3, 6, 8, 5, 4, 7, 7, 5, 8, 0, 8>>

\* the Err of str::parse
ParseErr == [k |-> "Err", neg |-> FALSE, mag |-> <<>>, exp |-> 0]

\* str::parse::<i64> of a matched -?(0|[1-9]\d*): the Integer, or ParseErr
\* for a digit that is not ASCII or a value out of the range of i64
ParseI64(sub) ==
    LET neg == sub[1] = MINUS
        digits == IF neg THEN Tail(sub) ELSE sub
    IN  IF ~AllAsciiDigits(digits) THEN ParseErr
        ELSE IF ~DigitsLeq(DigitsOf(digits), IF neg THEN I64MinDigits ELSE I64MaxDigits)
        THEN ParseErr
        ELSE Integer(neg /\ DigitsOf(digits) # <<0>>, DigitsOf(digits))

RECURSIVE StripLeadingZeros(_)
StripLeadingZeros(ds) ==
    IF Len(ds) > 1 /\ ds[1] = 0 THEN StripLeadingZeros(Tail(ds)) ELSE ds

\* <<digits without trailing zeros, number of zeros dropped>>
RECURSIVE StripTrailingZeros(_, _)
StripTrailingZeros(ds, dropped) ==
    IF Len(ds) > 1 /\ ds[Len(ds)] = 0
    THEN StripTrailingZeros(SubSeq(ds, 1, Len(ds) - 1), dropped + 1)
    ELSE <<ds, dropped>>

RECURSIVE DecimalValue(_)
DecimalValue(ds) ==
    IF ds = <<>> THEN 0 ELSE 10 * DecimalValue(SubSeq(ds, 1, Len(ds) - 1)) + ds[Len(ds)]

\* the decimal exponents beyond which f64 holds infinity / zero
F64_MAX_10_EXP == 308
F64_MIN_10_EXP == -324

\* str::parse::<f64> of a matched float literal: the Float, or ParseErr for a
\* digit that is not ASCII.  The value is kept as sign, significant decimal
\* digits and power of ten (equal literals such as 1.50 and 15e-1 give the
\* same Float; zero has no sign, as -0.0 == 0.0); beyond the range of f64
\* it is infinity or zero.  Rounding to 53 bits is not modelled.
ParseF64(sub) ==
    LET neg == sub[1] = MINUS
        p == IntPartEnd(sub, SignEnd(sub, 0))
        f == FracEnd(sub, p)
        q == IF f < 0 THEN p ELSE f
        hasExp == q < Len(sub)
        expNeg == hasExp /\ Get(sub, q + 1) = MINUS
        expFrom == IF hasExp /\ Get(sub, q + 1) \in {PLUS, MINUS} THEN q + 2 ELSE q + 1
        intBytes == Slice(sub, SignEnd(sub, 0), p)
        fracBytes == IF f < 0 THEN <<>> ELSE Slice(sub, p + 1, f)
        expBytes == IF hasExp THEN Slice(sub, expFrom, Len(sub)) ELSE <<>>
    IN  IF ~AllAsciiDigits(intBytes \o fracBytes \o expBytes) THEN ParseErr
        ELSE LET expDigits == StripLeadingZeros(DigitsOf(expBytes))
                 tooLong == Len(expDigits) > 4
                 written == IF tooLong THEN 9999 ELSE DecimalValue(expDigits)
                 stripped == StripTrailingZeros(
                                 StripLeadingZeros(DigitsOf(intBytes \o fracBytes)), 0)
                 mag == stripped[1]
                 exp == (IF expNeg THEN -written ELSE written)
                            - Len(fracBytes) + stripped[2]
                 top == exp + Len(mag) - 1
             IN  IF mag = <<0>> THEN Float(FALSE, <<0>>, 0)
                 ELSE IF top > F64_MAX_10_EXP THEN Float(neg, <<>>, 1)
                 ELSE IF top < F64_MIN_10_EXP THEN Float(FALSE, <<0>>, 0)
                 ELSE Float(neg, mag, exp)

\* Regex::captures_at(self.text, self.index) with the cursor beyond the end
\* of the text.  The regex crate's version is not fixed by the sources: one
\* past the end, older versions index out of range and newer ones find no
\* match; further beyond, every version panics.
BeyondEnd(txt, i) ==
    IF i = Len(txt) + 1 THEN {None(i), Panic(i)} ELSE {Panic(i)}

\* the set of outcomes of consume_int_number
consume_int_number(txt, i) ==
    IF i > Len(txt) THEN BeyondEnd(txt, i)
    ELSE LET match_len == IntMatchLen(txt, i)
         IN  IF match_len < 0 THEN {None(i)}
             ELSE LET value == ParseI64(Slice(txt, i, i + match_len))
                  IN  IF value.k = "Err" THEN {Panic(i)}
                      ELSE {Some(NumberToken(value), i + match_len)}

\* the set of outcomes of consume_float_number
consume_float_number(txt, i) ==
    IF i > Len(txt) THEN BeyondEnd(txt, i)
    ELSE LET match_len == FloatMatchLen(txt, i)
         IN  IF match_len < 0 THEN {None(i)}
             ELSE LET value == ParseF64(Slice(txt, i, i + match_len))
                  IN  IF value.k = "Err" THEN {Panic(i)}
                      ELSE {Some(NumberToken(value), i + match_len)}

\* a.or_else(|| b): the outcomes of b, run at the cursor a left, when a
\* returned None
OrElse(a, outcomesOfB) == IF a.some \/ a.panic THEN {a} ELSE outcomesOfB

consume_number(txt, i) ==
    UNION {OrElse(a, consume_int_number(txt, a.index)) : a \in consume_float_number(txt, i)}

\* the set of outcomes of one call of consume (TokenizerIterator::next)
consume(txt, i) ==
    LET at == consume_whitespaces(txt, i)
        char == IF at >= Len(txt) THEN {} ELSE {consume_char(txt, at)}
        word == UNION {OrElse(a, {consume_bool_and_null(txt, a.index)}) : a \in char}
        str == UNION {OrElse(a, {consume_string(txt, a.index)}) : a \in word}
    IN  IF at >= Len(txt) THEN {None(at)}
        ELSE UNION {OrElse(a, consume_number(txt, a.index)) : a \in str}

\* iter.collect(): the outcomes of calling next until it returns None, from
\* cursor i with the lexemes acc collected so far.  An outcome holds the
\* lexemes, the cursor the last call left, where the last call began to scan
\* after skipping whitespace, and whether it panicked.
RECURSIVE collect(_, _, _)
collect(txt, i, acc) ==
    UNION {IF out.some
           THEN collect(txt, out.index, Append(acc, out.tok))
           ELSE {[tokens |-> acc, index |-> out.index, panic |-> out.panic,
                  from |-> consume_whitespaces(txt, i)]} :
           out \in consume(txt, i)}

\* Tokenizer::tokenize(text): the set of its outcomes
tokenize(txt) == collect(txt, 0, <<>>)

(***************************************************************************)
(* SpecParser: the parser run on a bounded token vector                    *)
(***************************************************************************)
MaxTokens == 4
MaxElems == 3
MaxMembers == 3

Int1 == Integer(FALSE, <<1>>)
Int2 == Integer(FALSE, <<2>>)
KeyA == <<97>>
KeyB == <<98>>

ScalarTokens ==
    {TrueToken, FalseToken, NullToken, NumberToken(Int1), NumberToken(Int2),
     StringToken(KeyA), StringToken(KeyB)}

TokenAlphabet ==
    {BeginArray, EndArray, BeginObject, EndObject, NameSeparator, ValueSeparator}
        \cup ScalarTokens

\* Derivation trees of the grammar of 4.4: a scalar token, an array of trees,
\* an object of <<key, tree>> members in the order written.
Scalar(tok) == [n |-> "scalar", x |-> tok]
Arr(items) == [n |-> "array", x |-> items]
Obj(members) == [n |-> "object", x |-> members]

\* the token sequence a tree derives
RECURSIVE Yield(_), YieldItems(_), YieldMembers(_)
Yield(tree) ==
    CASE tree.n = "scalar" -> <<tree.x>>
      [] tree.n = "array" -> <<BeginArray>> \o YieldItems(tree.x) \o <<EndArray>>
      [] tree.n = "object" -> <<BeginObject>> \o YieldMembers(tree.x) \o <<EndObject>>

YieldItems(items) ==
    IF items = <<>> THEN <<>>
    ELSE IF Len(items) = 1 THEN Yield(items[1])
    ELSE Yield(items[1]) \o <<ValueSeparator>> \o YieldItems(Tail(items))

YieldMembers(members) ==
    IF members = <<>> THEN <<>>
    ELSE LET m == <<StringToken(members[1][1]), NameSeparator>> \o Yield(members[1][2])
         IN  IF Len(members) = 1 THEN m
             ELSE m \o <<ValueSeparator>> \o YieldMembers(Tail(members))

\* the last member written with key k
LastWith(members, k) ==
    CHOOSE i \in 1..Len(members) :
        members[i][1] = k /\ \A j \in (i + 1)..Len(members) : members[j][1] # k

\* the Value of section 3 a tree denotes: arrays keep the order written, an
\* object maps each key written to the value of its last member
RECURSIVE ValueOf(_)
ValueOf(tree) ==
    CASE tree.n = "scalar" -> tree.x
      [] tree.n = "array" -> JArray([i \in 1..Len(tree.x) |-> ValueOf(tree.x[i])])
      [] tree.n = "object" ->
            JObject([k \in {tree.x[i][1] : i \in 1..Len(tree.x)} |->
                         ValueOf(tree.x[LastWith(tree.x, k)][2])])

ElemTrees ==
    {Scalar(NumberToken(Int1)), Scalar(NumberToken(Int2)), Scalar(TrueToken),
     Arr(<<Scalar(NumberToken(Int1))>>), Obj(<< <<KeyA, Scalar(NumberToken(Int1))>> >>)}

MemberTrees ==
    {KeyA, KeyB} \X {Scalar(NumberToken(Int1)), Scalar(NumberToken(Int2)),
                     Arr(<<Scalar(NumberToken(Int1))>>)}

Trees ==
    {Scalar(tok) : tok \in ScalarTokens}
        \cup {Arr(items) : items \in SeqsUpTo(ElemTrees, MaxElems)}
        \cup {Obj(members) : members \in SeqsUpTo(MemberTrees, MaxMembers)}

Prefixes(toks) == {SubSeq(toks, 1, k) : k \in 0..Len(toks)}

\* every derived sequence, cut anywhere, with nothing or any one token put there
Damaged ==
    LET cuts == UNION {Prefixes(Yield(tree)) : tree \in Trees}
    IN  cuts \cup {Append(c, tok) : c \in cuts, tok \in TokenAlphabet}

TokenInputs == SeqsUpTo(TokenAlphabet, MaxTokens) \cup Damaged

CodecIdle == UNCHANGED <<cin, cout, cpc>>

\* Parser::new(&tokens)
ParserInit ==
    /\ tokens \in TokenInputs
    /\ phase = "parse"
    /\ result = Idle
    /\ text = Idle /\ index = 0
    /\ cin = Idle /\ cout = Idle /\ cpc = "idle"

\* the parser run on the collected tokens (parser.rs:24-32)
Parse ==
    /\ phase = "parse"
    /\ result' = parse_tokens(tokens)
    /\ phase' = "done"
    /\ UNCHANGED <<text, index, tokens>>
    /\ CodecIdle

ParserNext == Parse

SpecParser == ParserInit /\ [][ParserNext]_vars

(***************************************************************************)
(* Spec: Parser::parse(text) on a bounded text                             *)
(***************************************************************************)
MaxTextFrags == 3
MaxIntDigits == 2
MaxBlank == 3
MaxStringFrags == 2

\* pieces the texts are concatenated from:
\*   [ ] ,   space   true null   " \ a
\*   0 1 - . e   U+0663 (a decimal digit that is not ASCII)   @
TextFrags ==
    { <<91>>, <<93>>, <<44>>,
      <<SPACE>>,
      <<116, 114, 117, 101>>, <<110, 117, 108, 108>>,
      <<QUOTE>>, <<BACKSLASH>>, <<97>>,
      <<DIGIT_0>>, <<DIGIT_1>>, <<MINUS>>, <<DOT>>, <<LOWER_E>>,
      <<217, 163>>, <<64>> }

\* texts with the lexemes the pieces above leave out: { } : false, and line
\* feeds between lexemes
ObjectSamples ==
    { <<123, 125>>,
      <<123, 34, 97, 34, 58, 102, 97, 108, 115, 101, 125>>,
      <<123, LF, 34, 97, 34, 58, 49, 44, LF, 34, 97, 34, 58, 110, 117, 108, 108, 125, LF>>,
      <<123, 34, 97, 34, 58, 91, 102, 97, 108, 115, 101, 93, 125, 125>>,
      <<123, 34, 97, 34, 58>>,
      <<102, 97, 108, 115>>,
      <<58, 125, 123>> }

\* The well-formed number literals of the grammar of 4.2 step 6, built from
\* their parts: <<bytes, has a fraction or an exponent>>.
SignParts == {<<>>, <<MINUS>>}

IntParts ==
    {<<DIGIT_0>>}
        \cup {<<d>> \o ds : d \in {DIGIT_1, DIGIT_9},
                            ds \in SeqsUpTo({DIGIT_0, DIGIT_1}, MaxIntDigits - 1)}
        \cup {[k \in 1..19 |-> I64MaxDigits[k] + DIGIT_0],
              [k \in 1..19 |-> I64MinDigits[k] + DIGIT_0]}

FracParts == {<<>>, <<DOT, DIGIT_0>>, <<DOT, DIGIT_1, DIGIT_0>>}

ExpParts ==
    {<<>>, <<LOWER_E, DIGIT_1>>, <<UPPER_E, PLUS, DIGIT_1, DIGIT_0>>,
     <<LOWER_E, MINUS, DIGIT_0, DIGIT_1>>, <<LOWER_E, DIGIT_9, DIGIT_9, DIGIT_9>>}

NumberLiterals ==
    {<<s \o n \o f \o e, f # <<>> \/ e # <<>> >> :
        s \in SignParts, n \in IntParts, f \in FracParts, e \in ExpParts}

\* what may follow a literal without extending it: nothing, a space, ',' ']'
Followers == {<<>>, <<SPACE>>, <<44>>, <<93>>}

\* <<text, length of the literal it starts with, has a fraction or exponent>>
LiteralTexts ==
    {<<lit[1] \o fol, Len(lit[1]), lit[2]>> : lit \in NumberLiterals, fol \in Followers}

\* Texts that open a string: the pieces of its body are
\*   \"   \\   a   \n   U+3042   \ before U+3042
\* and after the body the text ends, or the string is closed, or the string is
\* closed and the string "a" follows a space.
StringBodyFrags ==
    { <<BACKSLASH, QUOTE>>, <<BACKSLASH, BACKSLASH>>, <<97>>, <<BACKSLASH, LOWER_N>>,
      <<227, 129, 130>>, <<BACKSLASH, 227, 129, 130>> }

StringTails == {<<>>, <<QUOTE>>, <<QUOTE, SPACE, QUOTE, 97, QUOTE>>}

StringTexts ==
    {<<QUOTE>> \o Flatten(fs) \o tail :
        fs \in SeqsUpTo(StringBodyFrags, MaxStringFrags), tail \in StringTails}

\* the texts made of whitespace only
BlankTexts == SeqsUpTo({SPACE, HT, LF, CR}, MaxBlank)

TextInputs ==
    {Flatten(fs) : fs \in SeqsUpTo(TextFrags, MaxTextFrags)}
        \cup {d[1] : d \in LiteralTexts}
        \cup BlankTexts
        \cup StringTexts
        \cup ObjectSamples

\* Tokenizer::new(text)
Init ==
    /\ text \in TextInputs
    /\ index = 0
    /\ tokens = <<>>
    /\ phase = "scan"
    /\ result = Idle
    /\ cin = Idle /\ cout = Idle /\ cpc = "idle"

\* TokenizerIterator::next returns Some(token): collect pushes it
NextSome ==
    /\ phase = "scan"
    /\ \E out \in consume(text, index) :
          /\ out.some
          /\ tokens' = Append(tokens, out.tok)
          /\ index' = out.index
    /\ UNCHANGED <<text, phase, result>>
    /\ CodecIdle

\* TokenizerIterator::next returns None: collect returns the vector
NextNone ==
    /\ phase = "scan"
    /\ \E out \in consume(text, index) :
          /\ ~out.some /\ ~out.panic
          /\ index' = out.index
    /\ phase' = "parse"
    /\ UNCHANGED <<text, tokens, result>>
    /\ CodecIdle

\* TokenizerIterator::next panics: Parser::parse does not return
NextPanic ==
    /\ phase = "scan"
    /\ \E out \in consume(text, index) :
          /\ out.panic
          /\ index' = out.index
    /\ phase' = "panic"
    /\ UNCHANGED <<text, tokens, result>>
    /\ CodecIdle

Next == NextSome \/ NextNone \/ NextPanic \/ Parse

Spec == Init /\ [][Next]_vars

(***************************************************************************)
(* SpecCodec: escape and unescape applied to a bounded text                *)
(***************************************************************************)
MaxRoundTrip == 3
MaxFrags == 3

\* the seven characters escape rewrites
Escapables == {QUOTE, BACKSLASH, BS, FF, LF, CR, HT}

\* pieces the codec's inputs are concatenated from: \ , \u , "  /  + ,
\* 0041 3042 D800 DFFF +041 00g1, 00 41, n x, a line feed, U+3042
CodecFrags ==
    { <<BACKSLASH>>, <<BACKSLASH, LOWER_U>>, <<QUOTE>>, <<SLASH>>,
      <<48, 48, 52, 49>>, <<51, 48, 52, 50>>, <<68, 56, 48, 48>>, <<100, 102, 102, 102>>,
      <<PLUS, 48, 52, 49>>, <<48, 48, 103, 49>>, <<48, 48>>, <<52, 49>>,
      <<LOWER_N>>, <<120>>, <<LF>>, <<12354>> }

CodecInputs ==
    SeqsUpTo(Escapables, MaxRoundTrip)
        \cup {Flatten(fs) : fs \in SeqsUpTo(CodecFrags, MaxFrags)}

CodecInit ==
    /\ cin \in CodecInputs
    /\ cout = <<>>
    /\ cpc = "start"
    /\ text = Idle /\ index = 0 /\ tokens = Idle /\ phase = "idle" /\ result = Idle

PipelineIdle == UNCHANGED <<text, index, tokens, phase, result>>

\* escape(s)
Escape ==
    /\ cpc = "start"
    /\ cout' = escape(cin)
    /\ cpc' = "escaped"
    /\ UNCHANGED cin
    /\ PipelineIdle

\* unescape(s)
Unescape ==
    /\ cpc = "start"
    /\ cout' = unescape(cin)
    /\ cpc' = "unescaped"
    /\ UNCHANGED cin
    /\ PipelineIdle

\* unescape(escape(s)): unescape applied to what escape returned
UnescapeEscaped ==
    /\ cpc = "escaped"
    /\ cout' = unescape(cout)
    /\ cpc' = "roundtrip"
    /\ UNCHANGED cin
    /\ PipelineIdle

CodecNext == Escape \/ Unescape \/ UnescapeEscaped

SpecCodec == CodecInit /\ [][CodecNext]_vars


(***************************************************************************)
(* Claims about the string codec (checked under SpecCodec)                 *)
(***************************************************************************)
OnlyEscapables(s) == \A i \in 1..Len(s) : s[i] \in Escapables

\* C8: for every text built from the seven escapable characters,
\* unescape(escape(text)) = text.
C8_RoundTrip == (cpc = "roundtrip" /\ OnlyEscapables(cin)) => cout = cin

C8_Witness ==
    /\ cpc = "roundtrip"
    /\ cin = <<BACKSLASH, QUOTE, LF>>
    /\ cout = cin

\* The lexical structure of 4.1: position k is where the scan of s, started at
\* position i, meets a character or the backslash that opens an escape.
RECURSIVE ScanMeets(_, _, _)
ScanMeets(s, i, k) ==
    IF i >= k THEN i = k
    ELSE IF s[i] # BACKSLASH THEN ScanMeets(s, i + 1, k)
    ELSE IF i + 1 <= Len(s) /\ s[i + 1] = LOWER_U THEN ScanMeets(s, i + 6, k)
    ELSE ScanMeets(s, i + 2, k)

\* a backslash at k that opens an escape
EscapeOpensAt(s, k) == k \in 1..Len(s) /\ s[k] = BACKSLASH /\ ScanMeets(s, 1, k)

IsHexChar(c) == c \in (48..57) \cup (65..70) \cup (97..102)

HexCharValue(c) == IF c <= 57 THEN c - 48 ELSE IF c <= 70 THEN c - 55 ELSE c - 87

\* the value four hexadecimal digits denote
FourHexValue(h) ==
    4096 * HexCharValue(h[1]) + 256 * HexCharValue(h[2])
        + 16 * HexCharValue(h[3]) + HexCharValue(h[4])

IsSurrogate(n) == n \in 55296..57343

\* what C9 says a \u escape followed by the four characters h is replaced by
ClaimedUnicodeEscape(h) ==
    IF ~(\A i \in 1..4 : IsHexChar(h[i])) THEN QUESTION
    ELSE IF IsSurrogate(FourHexValue(h)) THEN QUESTION
    ELSE FourHexValue(h)

\* C9: a \u escape whose four following characters are not all hexadecimal
\* digits, or denote a surrogate, is replaced by '?'; four hexadecimal digits
\* of a scalar value yield that character; in each case the scan continues
\* with the character after the four.
C9_UnicodeEscape ==
    cpc = "unescaped" =>
        \A k \in 1..Len(cin) :
            (EscapeOpensAt(cin, k) /\ k + 5 <= Len(cin) /\ cin[k + 1] = LOWER_U) =>
                cout = unescape(SubSeq(cin, 1, k - 1))
                         \o <<ClaimedUnicodeEscape(SubSeq(cin, k + 2, k + 5))>>
                         \o unescape(SubSeq(cin, k + 6, Len(cin)))

\* C10: a \u escape with fewer than four characters after it, at the end of
\* the input, yields the text unescaped before it followed by one '?' (the
\* characters read after \u are dropped); a backslash that is the last
\* character is emitted as a backslash.
C10_TruncatedEscape ==
    cpc = "unescaped" =>
        \A k \in 1..Len(cin) :
            EscapeOpensAt(cin, k) =>
                /\ k = Len(cin) =>
                       cout = unescape(SubSeq(cin, 1, k - 1)) \o <<BACKSLASH>>
                /\ (k < Len(cin) /\ cin[k + 1] = LOWER_U /\ Len(cin) < k + 5) =>
                       cout = unescape(SubSeq(cin, 1, k - 1)) \o <<QUESTION>>

\* n \u 0 0 : one character before the escape, two read after \u
C10_Witness ==
    /\ cpc = "unescaped"
    /\ cin = <<LOWER_N, BACKSLASH, LOWER_U, 48, 48>>
    /\ cout = <<LOWER_N, QUESTION>>

(***************************************************************************)
(* Claims about the parser (checked under SpecParser)                      *)
(***************************************************************************)
\* The grammar of 4.4 as a predictive recogniser: the stack holds what the
\* grammar still requires.  "sentence": the tokens derive from value;
\* "exhausted": every token fits and the grammar requires another one;
\* "misfit": token i is present and fits no continuation of the grammar.
RECURSIVE Walk(_, _, _)
Walk(toks, i, stack) ==
    IF i > Len(toks) THEN (IF stack = <<>> THEN "sentence" ELSE "exhausted")
    ELSE IF stack = <<>> THEN "misfit"
    ELSE LET tk == toks[i].t
             need == Head(stack)
             rest == Tail(stack)
         IN  CASE need = "value" ->
                    IF tk \in {"True", "False", "Null", "Number", "String"}
                    THEN Walk(toks, i + 1, rest)
                    ELSE IF tk = "BeginArray"
                    THEN Walk(toks, i + 1, <<"value or ]">> \o rest)
                    ELSE IF tk = "BeginObject"
                    THEN Walk(toks, i + 1, <<"member or }">> \o rest)
                    ELSE "misfit"
               [] need = "value or ]" ->
                    IF tk = "EndArray" THEN Walk(toks, i + 1, rest)
                    ELSE Walk(toks, i, <<"value", ", or ]">> \o rest)
               [] need = ", or ]" ->
                    IF tk = "EndArray" THEN Walk(toks, i + 1, rest)
                    ELSE IF tk = "ValueSeparator"
                    THEN Walk(toks, i + 1, <<"value", ", or ]">> \o rest)
                    ELSE "misfit"
               [] need = "member or }" ->
                    IF tk = "EndObject" THEN Walk(toks, i + 1, rest)
                    ELSE Walk(toks, i, <<"member", ", or }">> \o rest)
               [] need = ", or }" ->
                    IF tk = "EndObject" THEN Walk(toks, i + 1, rest)
                    ELSE IF tk = "ValueSeparator"
                    THEN Walk(toks, i + 1, <<"member", ", or }">> \o rest)
                    ELSE "misfit"
               [] need = "member" ->
                    IF tk = "String" THEN Walk(toks, i + 1, <<":", "value">> \o rest)
                    ELSE "misfit"
               [] need = ":" ->
                    IF tk = "NameSeparator" THEN Walk(toks, i + 1, rest) ELSE "misfit"

Grammar(toks) == Walk(toks, 1, <<"value">>)

\* C1: when the parser needs a lexeme and the sequence is exhausted (at a
\* value, a closing bracket, a member key, the ':' after a key, after a ','),
\* parse returns UnexpectedEOF.
C1_ExhaustedIsEOF ==
    (phase = "done" /\ Grammar(tokens) = "exhausted") => result = Err(UnexpectedEOF)

\* C2: when parse fails at a lexeme that is present and does not fit the
\* grammar (leftover lexemes after the top-level value included), the error
\* kind is UnexpectedToken and no value is returned.
C2_MisfitIsUnexpectedToken ==
    (phase = "done" /\ Grammar(tokens) = "misfit") => result = Err(UnexpectedToken)

\* { "a" : 1 , }  and  true true
C2_Witness ==
    /\ phase = "done"
    /\ \/ tokens = <<BeginObject, StringToken(KeyA), NameSeparator, NumberToken(Int1),
                     ValueSeparator, EndObject>>
       \/ tokens = <<TrueToken, TrueToken>>
    /\ Grammar(tokens) = "misfit"
    /\ result = Err(UnexpectedToken)

\* the derivations of the bounded trees: <<tokens derived, Value denoted>>
Derivations == {<<Yield(tree), ValueOf(tree)>> : tree \in Trees}

Sentences == {d[1] : d \in Derivations}

\* C3: the parser returns a Value exactly for the token sequences the grammar
\* derives from value, an error for every other, and the Value returned is
\* the one the derivation denotes.
C3_ParsesExactlyTheGrammar ==
    phase = "done" =>
        /\ result.ok <=> Grammar(tokens) = "sentence"
        /\ tokens \in Sentences => (result.ok /\ <<tokens, result.v>> \in Derivations)

\* [ [ 1 ] , { "a" : 1 } ]
C3_Witness ==
    /\ phase = "done"
    /\ tokens = Yield(Arr(<<Arr(<<Scalar(NumberToken(Int1))>>),
                            Obj(<< <<KeyA, Scalar(NumberToken(Int1))>> >>)>>))
    /\ result = Ok(JArray(<<JArray(<<JNumber(Int1)>>),
                            JObject(KeyA :> JNumber(Int1))>>))

\* the objects written as a list of members: <<tokens, members>>
ObjectTexts ==
    {<<Yield(Obj(members)), members>> : members \in SeqsUpTo(MemberTrees, MaxMembers)}

KeysOf(members) == {members[i][1] : i \in 1..Len(members)}

\* C6: the Object parsed from a member list has one entry per key written,
\* and maps each key to the value of the last member written with that key.
C6_LastWriteWins ==
    (phase = "done" /\ tokens # <<>> /\ tokens[1] = BeginObject) =>
        \A d \in ObjectTexts :
            d[1] = tokens =>
                /\ result.ok
                /\ result.v.t = "Object"
                /\ DOMAIN result.v.v = KeysOf(d[2])
                /\ \A k \in KeysOf(d[2]) :
                       Ok(result.v.v[k]) = parse_tokens(Yield(d[2][LastWith(d[2], k)][2]))

\* { "a" : 1 , "b" : 2 , "a" : 2 }
C6_Witness ==
    /\ phase = "done"
    /\ tokens = Yield(Obj(<< <<KeyA, Scalar(NumberToken(Int1))>>,
                             <<KeyB, Scalar(NumberToken(Int2))>>,
                             <<KeyA, Scalar(NumberToken(Int2))>> >>))
    /\ result = Ok(JObject((KeyA :> JNumber(Int2)) @@ (KeyB :> JNumber(Int2))))

\* the arrays written as a list of values: <<tokens, items>>
ArrayTexts ==
    {<<Yield(Arr(items)), items>> : items \in SeqsUpTo(ElemTrees, MaxElems)}

\* C7: the Array parsed from a list of values holds one element per value
\* written, element i being the parse of the i-th value; [] yields the empty
\* Array.
C7_ArrayOrder ==
    (phase = "done" /\ tokens # <<>> /\ tokens[1] = BeginArray) =>
        \A d \in ArrayTexts :
            d[1] = tokens =>
                /\ result.ok
                /\ result.v.t = "Array"
                /\ Len(result.v.v) = Len(d[2])
                /\ \A i \in 1..Len(d[2]) :
                       Ok(result.v.v[i]) = parse_tokens(Yield(d[2][i]))

\* [ 1 , [ 1 ] , true ]
C7_Witness ==
    /\ phase = "done"
    /\ tokens = Yield(Arr(<<Scalar(NumberToken(Int1)), Arr(<<Scalar(NumberToken(Int1))>>),
                            Scalar(TrueToken)>>))
    /\ result = Ok(JArray(<<JNumber(Int1), JArray(<<JNumber(Int1)>>), JTrue>>))


(***************************************************************************)
(* Claims about the tokenizer and the whole call, checked under Spec       *)
(***************************************************************************)
\* the text is a well-formed number literal d, alone or before a follower
StartsWithLiteral(d) == text = d[1]

\* the first lexeme of the text is a Number of the variant the literal calls for
FirstLexemeIs(d) ==
    /\ Len(tokens) >= 1
    /\ tokens[1].t = "Number"
    /\ tokens[1].v.k = (IF d[3] THEN "Float" ELSE "Integer")

\* C4: for every well-formed JSON number literal at the cursor, one scan step
\* consumes the whole literal and yields a single Number lexeme that is a
\* Float if and only if the literal has a fraction and/or an exponent, and an
\* Integer otherwise: once the scan has taken its first step the first lexeme
\* is that Number, and the cursor stands right after the literal.
C4_NumberLiteral ==
    \A d \in LiteralTexts :
        StartsWithLiteral(d) =>
            \/ phase = "scan" /\ index = 0 /\ tokens = <<>>
            \/ /\ FirstLexemeIs(d)
               /\ (Len(tokens) = 1 /\ phase = "scan") => index = d[2]

\* C5: parse returns a Value or a ParserError for every input text: no input
\* makes the call abort instead of returning.
C5_NoPanic == phase # "panic"

\* the text is empty or made of space, tab, line feed and carriage return only
IsBlank(txt) == \A k \in 1..Len(txt) : txt[k] \in {32, 9, 10, 13}

\* C11: parse of the empty text, and of any text made only of whitespace
\* (space, tab, line feed, carriage return), yields the error UnexpectedEOF.
C11_BlankIsEOF ==
    (IsBlank(text) /\ phase = "done") =>
        (~result.ok /\ result.kind = "UnexpectedEOF")

\* C11: the call has returned on a text of a tab, a carriage return and a
\* line feed
C11_Witness == text = <<9, 13, 10>> /\ phase = "done"

\* the bytes a lexeme of the grammar can begin with:
\*   [ ] { } : ,   "   -   0..9   t f n
LexemeStarts == {91, 93, 123, 125, 58, 44, 34, 45, 116, 102, 110} \cup (48..57)

\* the position (0-based) of the first byte at or after i that is not whitespace
RECURSIVE SkipBlanks(_, _)
SkipBlanks(txt, i) ==
    IF i < Len(txt) /\ txt[i + 1] \in {32, 9, 10, 13} THEN SkipBlanks(txt, i + 1) ELSE i

\* no lexeme can start at position p: a stray byte
StrayAt(txt, p) ==
    p < Len(txt) /\ txt[p + 1] \notin LexemeStarts \cup {32, 9, 10, 13}

\* an opening quote at position p with no quote after it
UnterminatedAt(txt, p) ==
    /\ p < Len(txt)
    /\ txt[p + 1] = 34
    /\ \A k \in (p + 2)..Len(txt) : txt[k] # 34

\* the scan stops at position p
StopsAt(txt, p) == StrayAt(txt, p) \/ UnterminatedAt(txt, p)

\* C12: when the scan reaches a position where no lexeme can start (a stray
\* byte) or an opening quote with no closing quote before the end of the text,
\* the step yields no lexeme and no error, the lexemes collected are exactly
\* those tokenize returns for the text cut off at that position, and parse
\* returns what it returns for the cut text.
C12_Truncation ==
    /\ LET at == SkipBlanks(text, index)
       IN  (phase = "scan" /\ StopsAt(text, at)) =>
               /\ \A out \in consume(text, index) : ~out.some /\ ~out.panic
               /\ \A o \in tokenize(SubSeq(text, 1, at)) :
                      ~o.panic /\ o.tokens = tokens
    /\ phase = "done" =>
           \A whole \in tokenize(text) :
               (~whole.panic /\ StopsAt(text, whole.from)) =>
                   \A cut \in tokenize(SubSeq(text, 1, whole.from)) :
                       ~cut.panic /\ result = parse_tokens(cut.tokens)

\* the position (0-based) of the first quote at or after k that does not
\* follow an unconsumed backslash, reading byte by byte; -1 for none
RECURSIVE ClosingQuote(_, _)
ClosingQuote(txt, k) ==
    IF k >= Len(txt) THEN -1
    ELSE IF txt[k + 1] = 34 THEN k
    ELSE IF txt[k + 1] = 92 THEN ClosingQuote(txt, k + 2)
    ELSE ClosingQuote(txt, k + 1)

\* C13: a string scan ends at the first double quote that is not preceded by
\* an unconsumed backslash: the step that begins at an opening quote for which
\* there is such a closing quote appends one String lexeme whose text is
\* unescape of the bytes strictly between the two quotes, and leaves the
\* cursor one byte past the closing quote.
C13_StringScan ==
    [][LET open == SkipBlanks(text, index)
           close == ClosingQuote(text, open + 1)
       IN  (phase = "scan" /\ open < Len(text) /\ text[open + 1] = 34 /\ close >= 0) =>
               /\ phase' = "scan"
               /\ index' = close + 1
               /\ tokens' = Append(tokens,
                      [t |-> "String",
                       v |-> unescape(FromUtf8(SubSeq(text, open + 2, close)))])]_vars

\* C13: a string holding an escaped quote and an escaped backslash before its
\* closing quote has been scanned
C13_Witness ==
    /\ text = <<34, 92, 34, 92, 92, 34>>
    /\ tokens = <<[t |-> "String", v |-> <<34, 92>>]>>
    /\ index = 6

\* the text with byte b inserted at position p (0-based)
Insert(txt, p, b) == SubSeq(txt, 1, p) \o <<b>> \o SubSeq(txt, p + 1, Len(txt))

\* what tokenize returns for a text: the lexeme sequence, or that it aborted
Lexemes(txt) == {[tokens |-> o.tokens, panic |-> o.panic] : o \in tokenize(txt)}

\* bytes that are not whitespace: NUL, backspace, vertical tab, form feed,
\* the first byte of U+00A0 NO-BREAK SPACE, and a letter
NotBlanks == {0, 8, 11, 12, 194, 97}

\* C14: whitespace is insignificant between lexemes: wherever the cursor
\* stands between lexemes (before the first, between two, after the last),
\* a space, tab, line feed or carriage return inserted there does not change
\* the lexeme sequence tokenize returns; and no other byte is skipped as
\* whitespace: the skip stops at the first byte that is none of the four.
C14_Whitespace ==
    phase = "scan" =>
        /\ \A b \in {32, 9, 10, 13} : Lexemes(Insert(text, index, b)) = Lexemes(text)
        /\ consume_whitespaces(text, index) = SkipBlanks(text, index)
        /\ \A b \in NotBlanks : consume_whitespaces(Insert(text, index, b), index) = index

\* C14: the cursor stands between the lexemes true and 1 of the text true1
C14_Witness ==
    /\ text = <<116, 114, 117, 101, 49>>
    /\ phase = "scan"
    /\ index = 4
    /\ Len(tokens) = 1

\* C15: tokenize terminates on every input.  The cursor never moves
\* backwards; while the scan runs the cursor is within the text and there are
\* no more lexemes than bytes before it; a step that yields a lexeme yields
\* one and advances the cursor by at least one byte; a step that yields none
\* ends the scan.  So the scan ends after at most len(text) + 1 steps and
\* the result has at most len(text) lexemes.
C15_Terminates ==
    [][/\ index' >= index
       /\ Len(tokens') <= Len(text')
       /\ phase = "scan" => (index <= Len(text) /\ Len(tokens) <= index)
       /\ tokens' # tokens => (index' > index /\ Len(tokens') = Len(tokens) + 1)
       /\ (phase = "scan" /\ tokens' = tokens) => phase' # "scan"]_vars

\* C15: the scan of the three bytes [], has ended with three lexemes
C15_Witness ==
    /\ text = <<91, 93, 44>>
    /\ phase = "parse"
    /\ Len(tokens) = 3
    /\ index = 3

\* C16: at every point of a scan the cursor satisfies
\* 0 <= cursor <= len(text), also after a failed string scan, when the number
\* matcher is attempted at the cursor.
C16_CursorBound == 0 <= index /\ index <= Len(text)

====
